---- MODULE Spec2Model ----
(***************************************************************************)
(* ClubCalendar sync job (src/sync/sync.py, src/sync/storage.py).          *)
(*                                                                         *)
(* Python values are tagged records: k is the Python type, v the value.    *)
(* A key that is absent from a mapping is the value Unset.  A string is a  *)
(* sequence of symbols: single characters where letter case matters, and   *)
(* longer chunks of text where only equality does.                         *)
(***************************************************************************)
EXTENDS Integers, Sequences, FiniteSets, TLC

VARIABLES
    event,              \* argument of the function under call: the raw event
    org_config,         \* the organization config mapping
    ret,                \* the last call of a pure function: its name, arguments, outcome
    token,              \* WildApricotClient.token
    token_expires,      \* WildApricotClient.token_expires
    now,                \* datetime.now(), in seconds
    token_log,          \* history: the last _get_token call and the last acquisition
    page_url,           \* get_events: the URL of the next request
    all_events,         \* get_events: the accumulated events
    pages,              \* history: the responses get_events has received, in order
    pc,                 \* position of the running sync_events / get_events
    config,             \* SyncConfig: the credentials
    raw_events,         \* what get_events returned: None until it has
    transformed_events, \* sync_events: the accumulated NormalizedEvents
    idx,                \* sync_events: how many raw events the loop has passed
    saved,              \* the documents handed to storage.save_events, in order
    result              \* what sync_events returned, or the exception it raised

vars == <<event, org_config, ret, token, token_expires, now, token_log, page_url,
          all_events, pages, pc, config, raw_events, transformed_events, idx,
          saved, result>>

transformVars == <<event, org_config, ret>>
clientVars == <<token, token_expires, now, token_log>>
fetchVars == <<page_url, all_events, pages>>
syncVars == <<config, raw_events, transformed_events, idx, saved, result>>

----------------------------------------------------------------------------
(* Python values *)

Unset == [k |-> "unset"]
None == [k |-> "none"]
PyInt(n) == [k |-> "int", v |-> n]
PyStr(s) == [k |-> "str", v |-> s]
PyList(l) == [k |-> "list", v |-> l]
PyBool(b) == [k |-> "bool", v |-> b]

\* mapping.get(key, default), where field is the mapping's entry for the key
Get(field, default) == IF field.k = "unset" THEN default ELSE field

\* Python truth value of a str, int, list, bool or None
Truthy(x) ==
    CASE x.k = "none" -> FALSE
      [] x.k = "int" -> x.v # 0
      [] x.k = "bool" -> x.v
      [] x.k \in {"str", "list"} -> Len(x.v) > 0
      [] OTHER -> TRUE

\* no call has been made yet
NoCall == [fn |-> "none"]

Raised == [raised |-> TRUE, val |-> None]
Returned(x) == [raised |-> FALSE, val |-> x]

----------------------------------------------------------------------------
(* str methods *)

UpperLetters == <<"A", "B", "C", "D", "E", "F", "G", "H", "I", "J", "K", "L", "M",
                  "N", "O", "P", "Q", "R", "S", "T", "U", "V", "W", "X", "Y", "Z">>
LowerLetters == <<"a", "b", "c", "d", "e", "f", "g", "h", "i", "j", "k", "l", "m",
                  "n", "o", "p", "q", "r", "s", "t", "u", "v", "w", "x", "y", "z">>

LowerChar(c) ==
    IF \E i \in DOMAIN UpperLetters : UpperLetters[i] = c
    THEN LowerLetters[CHOOSE i \in DOMAIN UpperLetters : UpperLetters[i] = c]
    ELSE c

UpperChar(c) ==
    IF \E i \in DOMAIN LowerLetters : LowerLetters[i] = c
    THEN UpperLetters[CHOOSE i \in DOMAIN LowerLetters : LowerLetters[i] = c]
    ELSE c

lower(s) == [i \in DOMAIN s |-> LowerChar(s[i])]
upper(s) == [i \in DOMAIN s |-> UpperChar(s[i])]

startswith(s, p) == Len(p) <= Len(s) /\ SubSeq(s, 1, Len(p)) = p
endswith(s, p) == Len(p) <= Len(s) /\ SubSeq(s, Len(s) - Len(p) + 1, Len(s)) = p
\* p in s
contains(s, p) ==
    \E i \in 0..(Len(s) - Len(p)) : SubSeq(s, i + 1, i + Len(p)) = p

RECURSIVE lstrip(_)
lstrip(s) == IF s # <<>> /\ Head(s) = " " THEN lstrip(Tail(s)) ELSE s
RECURSIVE rstrip(_)
rstrip(s) ==
    IF s # <<>> /\ s[Len(s)] = " " THEN rstrip(SubSeq(s, 1, Len(s) - 1)) ELSE s
strip(s) == rstrip(lstrip(s))

\* s.split(','): the pieces between the commas, empty pieces kept
RECURSIVE split(_)
split(s) ==
    IF \E i \in DOMAIN s : s[i] = ","
    THEN LET i == CHOOSE j \in DOMAIN s : s[j] = "," /\ \A h \in 1..(j - 1) : s[h] # ","
         IN <<SubSeq(s, 1, i - 1)>> \o split(SubSeq(s, i + 1, Len(s)))
    ELSE <<s>>

----------------------------------------------------------------------------
(* apply_auto_tags *)

\* one pass of the for loop over rules[i..], auto_tags being the tags so far
RECURSIVE AutoTagLoop(_, _, _, _)
AutoTagLoop(event_name, rules, i, auto_tags) ==
    IF i > Len(rules) THEN Returned(auto_tags)
    ELSE LET rule == rules[i]
             rule_type == Get(rule.type, None)
             rawpat == Get(rule.pattern, PyStr(<<>>))
             tag == Get(rule.tag, None)
         IN IF rawpat.k # "str" THEN Raised
            ELSE LET pattern == lower(rawpat.v)
                     matched ==
                         CASE rule_type = PyStr("name-prefix") -> startswith(event_name, pattern)
                           [] rule_type = PyStr("name-contains") -> contains(event_name, pattern)
                           [] rule_type = PyStr("name-suffix") -> endswith(event_name, pattern)
                           [] OTHER -> FALSE
                 IN IF pattern = <<>> \/ ~Truthy(tag)
                    THEN AutoTagLoop(event_name, rules, i + 1, auto_tags)
                    ELSE AutoTagLoop(event_name, rules, i + 1,
                                     IF matched THEN Append(auto_tags, tag.v) ELSE auto_tags)

\* apply_auto_tags comparing the name as written with the case-folded pattern
apply_auto_tags_case_sensitive(ev, rules) ==
    LET name == Get(ev.Name, PyStr(<<>>))
    IN IF ~ev.isdict \/ name.k # "str" THEN Raised
       ELSE IF rules.k # "list" THEN Raised
       ELSE AutoTagLoop(name.v, rules.v, 1, <<>>)

apply_auto_tags(ev, rules) ==
    LET name == Get(ev.Name, PyStr(<<>>))
    IN IF ~ev.isdict \/ name.k # "str" THEN Raised
       ELSE IF rules.k # "list" THEN Raised
       ELSE AutoTagLoop(lower(name.v), rules.v, 1, <<>>)

----------------------------------------------------------------------------
(* datetime.fromisoformat *)

\* the calendar: the dates the model's timestamps use, with date.weekday()
\* (Monday = 0 ... Sunday = 6)
IsoDates == {"2026-11-03", "2026-11-07", "2026-11-08"}
WeekdayOf(d) ==
    CASE d = "2026-11-03" -> 1
      [] d = "2026-11-07" -> 5
      [] d = "2026-11-08" -> 6
IsoHours == {"09", "14", "20"}
HourOf(h) ==
    CASE h = "09" -> 9
      [] h = "14" -> 14
      [] h = "20" -> 20

\* s.replace('Z', '+00:00')
replaceZ(s) == [i \in DOMAIN s |-> IF s[i] = "Z" THEN "+00:00" ELSE s[i]]

\* datetime.fromisoformat(s): YYYY-MM-DD, optionally followed by T, HH, :MM:SS
\* and optionally a UTC offset; anything else is a ValueError
fromisoformat(s) ==
    LET dateOk == Len(s) >= 1 /\ s[1] \in IsoDates
        timeOk == Len(s) >= 4 /\ s[2] = "T" /\ s[3] \in IsoHours /\ s[4] = ":00:00"
    IN CASE dateOk /\ Len(s) = 1 ->
              Returned([hour |-> 0, weekday |-> WeekdayOf(s[1])])
         [] dateOk /\ timeOk /\ (Len(s) = 4 \/ (Len(s) = 5 /\ s[5] = "+00:00")) ->
              Returned([hour |-> HourOf(s[3]), weekday |-> WeekdayOf(s[1])])
         [] OTHER -> Raised

\* the try block's first statement; a start date that is no str raises too
\* (AttributeError on replace), and every such exception is caught
ParseStart(start_date_str) ==
    IF start_date_str.k # "str" THEN Raised
    ELSE fromisoformat(replaceZ(start_date_str.v))

----------------------------------------------------------------------------
(* the field derivers *)

\* {} where the derived-fields mapping, the time-of-day mapping and a boundary
\* mapping are expected
EmptyDerived == [k |-> "dict", time_of_day |-> Unset, timeOfDay |-> Unset]
EmptyTimeOfDay == [k |-> "dict", morning |-> Unset, afternoon |-> Unset]
EmptyBoundary == [k |-> "dict", before |-> Unset]

\* config.get(snake, config.get(camel, default))
GetPair(snake, camel, default) == Get(snake, Get(camel, default))

DefaultMorningBefore == 12
DefaultAfternoonBefore == 17

\* time_config.get(name, {}).get('before', default); Raised when a .get is
\* called on something that is no mapping
BoundaryHour(entry, default) ==
    LET m == Get(entry, EmptyBoundary)
    IN IF m.k # "dict" THEN Raised ELSE Returned(Get(m.before, PyInt(default)))

\* config.get('derived_fields', config.get('derivedFields', {}))
ResolveDerivedFields(cfg) == GetPair(cfg.derived_fields, cfg.derivedFields, EmptyDerived)

\* time_config.get('time_of_day', time_config.get('timeOfDay', {})); Raised when
\* time_config is no mapping
ResolveTimeOfDay(outer) ==
    IF outer.k # "dict" THEN Raised
    ELSE Returned(GetPair(outer.time_of_day, outer.timeOfDay, EmptyTimeOfDay))

\* the time-of-day tag, or None: every exception of the try block is caught
derive_time_of_day(start_date_str, cfg) ==
    LET start_dt == ParseStart(start_date_str)
        time_config == ResolveTimeOfDay(ResolveDerivedFields(cfg))
    IN IF start_dt.raised \/ time_config.raised THEN None
       ELSE IF time_config.val.k # "dict" THEN None
       ELSE LET morning_before == BoundaryHour(time_config.val.morning, DefaultMorningBefore)
                afternoon_before == BoundaryHour(time_config.val.afternoon, DefaultAfternoonBefore)
                hour == start_dt.val.hour
            IN IF morning_before.raised \/ afternoon_before.raised THEN None
               ELSE IF morning_before.val.k # "int" THEN None
               ELSE IF hour < morning_before.val.v THEN PyStr(<<"time:", "morning">>)
               ELSE IF afternoon_before.val.k # "int" THEN None
               ELSE IF hour < afternoon_before.val.v THEN PyStr(<<"time:", "afternoon">>)
               ELSE PyStr(<<"time:", "evening">>)

AvailabilityThreshold == 5

\* derive_availability calling an event full only below zero spots
derive_availability_strict(ev) ==
    LET limit == Get(ev.RegistrationsLimit, None)
        confirmed == Get(ev.ConfirmedRegistrationsCount, PyInt(0))
    IN IF limit.k = "none" \/ (limit.k = "int" /\ limit.v = 0)
       THEN Returned(<<"availability:", "open">>)
       ELSE IF limit.k # "int" \/ confirmed.k # "int" THEN Raised
       ELSE LET spots == limit.v - confirmed.v
            IN IF spots < 0 THEN Returned(<<"availability:", "full">>)
               ELSE IF spots <= AvailabilityThreshold
                    THEN Returned(<<"availability:", "limited">>)
               ELSE Returned(<<"availability:", "open">>)

\* the availability tag; Raised on a TypeError of limit - confirmed
derive_availability(ev) ==
    LET limit == Get(ev.RegistrationsLimit, None)
        confirmed == Get(ev.ConfirmedRegistrationsCount, PyInt(0))
    IN IF limit.k = "none" \/ (limit.k = "int" /\ limit.v = 0)
       THEN Returned(<<"availability:", "open">>)
       ELSE IF limit.k # "int" \/ confirmed.k # "int" THEN Raised
       ELSE LET spots == limit.v - confirmed.v
            IN IF spots <= 0 THEN Returned(<<"availability:", "full">>)
               ELSE IF spots <= AvailabilityThreshold
                    THEN Returned(<<"availability:", "limited">>)
               ELSE Returned(<<"availability:", "open">>)

WeekendFrom == 5

derive_weekend(start_date_str) ==
    LET start_dt == ParseStart(start_date_str)
    IN IF start_dt.raised THEN FALSE ELSE start_dt.val.weekday >= WeekendFrom

----------------------------------------------------------------------------
(* transform_event *)

Range(s) == {s[i] : i \in DOMAIN s}

\* [t.strip() for t in wa_tags.split(',') if t.strip()]
RECURSIVE StripNonEmpty(_)
StripNonEmpty(parts) ==
    IF parts = <<>> THEN <<>>
    ELSE (IF strip(Head(parts)) # <<>> THEN <<strip(Head(parts))>> ELSE <<>>)
         \o StripNonEmpty(Tail(parts))

\* the source tags as a list; a value that is neither str, None nor list stays
\* as it is and makes wa_tags + auto_tags raise
ParseTags(ev) ==
    LET wa_tags == Get(ev.Tags, PyList(<<>>))
    IN CASE wa_tags.k = "str" -> Returned(StripNonEmpty(split(wa_tags.v)))
         [] wa_tags.k = "none" -> Returned(<<>>)
         [] wa_tags.k = "list" -> Returned(wa_tags.v)
         [] OTHER -> Raised

\* org_config.get('auto_tag_rules', org_config.get('autoTagRules', []))
ResolveAutoTagRules(cfg) == GetPair(cfg.auto_tag_rules, cfg.autoTagRules, PyList(<<>>))

Max(a, b) == IF a >= b THEN a ELSE b

\* SpotsAvailable treating a limit of 0 as no limit, as derive_availability does
SpotsAvailableZeroIsUnlimited(ev) ==
    LET limit == Get(ev.RegistrationsLimit, None)
        confirmed == Get(ev.ConfirmedRegistrationsCount, PyInt(0))
    IN IF limit.k = "none" \/ (limit.k = "int" /\ limit.v = 0) THEN Returned(None)
       ELSE IF limit.k # "int" \/ confirmed.k # "int" THEN Raised
       ELSE Returned(PyInt(Max(0, limit.v - confirmed.v)))

\* spots = None if limit is None else max(0, limit - confirmed)
SpotsAvailable(ev) ==
    LET limit == Get(ev.RegistrationsLimit, None)
        confirmed == Get(ev.ConfirmedRegistrationsCount, PyInt(0))
    IN IF limit.k = "none" THEN Returned(None)
       ELSE IF limit.k # "int" \/ confirmed.k # "int" THEN Raised
       ELSE Returned(PyInt(Max(0, limit.v - confirmed.v)))

\* spots == 0 if spots is not None else False
IsFull(spots) == IF spots.k # "none" THEN spots.v = 0 ELSE FALSE

\* f"{event_id}"
Format(x) == IF x.k = "int" THEN <<ToString(x.v)>> ELSE x.v

\* the event URL: the source's, or one built from the identifier
EventUrl(ev) ==
    LET event_id == Get(ev.Id, None)
        event_url == Get(ev.Url, PyStr(<<>>))
    IN IF ~Truthy(event_url) /\ Truthy(event_id)
       THEN PyStr(<<"https://sbnewcomers.org/event-">> \o Format(event_id))
       ELSE event_url

Description(ev) ==
    IF ev.Details.k = "dict" THEN Get(ev.Details.DescriptionHtml, PyStr(<<>>))
    ELSE PyStr(<<>>)

transform_event(ev, cfg) ==
    LET wa_tags == ParseTags(ev)
        auto_tag_rules == ResolveAutoTagRules(cfg)
        rule_tags == apply_auto_tags(ev, auto_tag_rules)
        start_date == Get(ev.StartDate, PyStr(<<>>))
        time_tag == derive_time_of_day(start_date, cfg)
        avail_tag == derive_availability(ev)
        spots == SpotsAvailable(ev)
    IN IF ~ev.isdict \/ wa_tags.raised \/ rule_tags.raised \/ avail_tag.raised \/ spots.raised
       THEN Raised
       ELSE LET auto_tags ==
                    rule_tags.val
                    \o (IF Truthy(time_tag) THEN <<time_tag.v>> ELSE <<>>)
                    \o <<avail_tag.val>>
                    \o (IF derive_weekend(start_date) THEN <<<<"day:", "weekend">>>> ELSE <<>>)
            IN Returned([
                   id |-> Get(ev.Id, None),
                   name |-> Get(ev.Name, PyStr(<<>>)),
                   start |-> start_date,
                   end |-> Get(ev.EndDate, PyStr(<<>>)),
                   location |-> Get(ev.Location, PyStr(<<>>)),
                   description |-> Description(ev),
                   url |-> EventUrl(ev),
                   registrationUrl |-> Get(ev.RegistrationUrl, PyStr(<<>>)),
                   tags |-> Range(wa_tags.val \o auto_tags),
                   spotsAvailable |-> spots.val,
                   isFull |-> IsFull(spots.val),
                   registrationEnabled |-> Get(ev.RegistrationEnabled, PyBool(TRUE)),
                   accessLevel |-> Get(ev.AccessLevel, PyStr(<<"Public">>))])

----------------------------------------------------------------------------
(* WildApricotClient._get_token *)

RefreshMargin == 60

\* token_log: the last _get_token call (when it was made, whether it went to
\* the network, what it returned) and the time and expires_in of the last
\* acquisition
NoTokenLog == [call |-> NoCall, acquired_at |-> 0, expires_in |-> 0]

\* a response of the token endpoint
TokenOk(access_token, expires_in) ==
    [ok |-> TRUE, access_token |-> access_token, expires_in |-> expires_in]
TokenRefused == [ok |-> FALSE, access_token |-> <<>>, expires_in |-> 0]

\* TokenFresh reusing the token at the instant it expires
TokenFreshInclusive ==
    Truthy(token) /\ token_expires.k # "none" /\ now <= token_expires.v

\* self.token and self.token_expires and datetime.now() < self.token_expires
TokenFresh ==
    Truthy(token) /\ token_expires.k # "none" /\ now < token_expires.v

\* whether the call raises: the request is made and refused
GetTokenRaises(resp) == ~TokenFresh /\ ~resp.ok

\* one call of _get_token; resp is the token endpoint's response and latency
\* the time the request takes, both used only when the request is made
GetToken(resp, latency) ==
    IF TokenFresh
    THEN /\ UNCHANGED <<token, token_expires, now>>
         /\ token_log' = [token_log EXCEPT !.call =
                [fn |-> "_get_token", at |-> now, net |-> FALSE, raised |-> FALSE,
                 returned |-> token]]
    ELSE /\ now' = now + latency
         /\ IF resp.ok
            THEN /\ token' = PyStr(resp.access_token)
                 /\ token_expires' = PyInt(now' + resp.expires_in - RefreshMargin)
                 /\ token_log' =
                      [call |-> [fn |-> "_get_token", at |-> now, net |-> TRUE,
                                 raised |-> FALSE, returned |-> token'],
                       acquired_at |-> now', expires_in |-> resp.expires_in]
            ELSE /\ UNCHANGED <<token, token_expires>>
                 /\ token_log' = [token_log EXCEPT !.call =
                        [fn |-> "_get_token", at |-> now, net |-> TRUE, raised |-> TRUE,
                         returned |-> None]]

MaxTime == 24

TickSteps == {1, 5}
Latencies == {0, 1}
TokenResponses ==
    {TokenRefused}
    \cup {TokenOk(t, e) : t \in {<<"tokA">>, <<"tokB">>}, e \in {55, 60, 61, 70}}

\* the clock advances between calls
Tick ==
    /\ \E d \in TickSteps : now + d <= MaxTime /\ now' = now + d
    /\ UNCHANGED <<token, token_expires, token_log, transformVars, fetchVars, pc, syncVars>>

CallGetToken ==
    /\ \E resp \in TokenResponses, latency \in Latencies :
          now + latency <= MaxTime /\ GetToken(resp, latency)
    /\ UNCHANGED <<transformVars, fetchVars, pc, syncVars>>

----------------------------------------------------------------------------
(* WildApricotClient.get_events *)

Credentials(account_id, api_key) == [account_id |-> account_id, api_key |-> api_key]
NoCredentials == Credentials(None, None)
GoodCredentials == Credentials(PyStr(<<"12345">>), PyStr(<<"key">>))

\* f"{self.base_url}/accounts/{self.account_id}/events"
EventsUrl(account_id) ==
    PyStr(<<"https://api.wildapricot.org/v2.2", "/accounts/">> \o Format(account_id)
          \o <<"/events">>)

\* the responses of the events endpoint: a non-success status, a JSON object
\* with its Events and ResultNextPageUrl entries, or a bare JSON list
HttpError == [kind |-> "error"]
DictPage(events, next) == [kind |-> "dict", Events |-> events, ResultNextPageUrl |-> next]
ListPage(data) == [kind |-> "list", data |-> data]

\* an exception leaves the running call
Fail(error) ==
    /\ pc' = "failed"
    /\ result' = [raised |-> TRUE, error |-> error]

\* lines 82-101: the token, the first URL, the empty accumulator
GetEventsBegin(resp, latency) ==
    /\ pc = "get_events"
    /\ GetToken(resp, latency)
    /\ IF GetTokenRaises(resp)
       THEN /\ Fail("HTTPError")
            /\ UNCHANGED <<page_url, all_events>>
       ELSE /\ pc' = "fetching"
            /\ page_url' = EventsUrl(config.account_id)
            /\ all_events' = <<>>
            /\ UNCHANGED result
    /\ UNCHANGED <<pages, transformVars, config, raw_events, transformed_events, idx, saved>>

\* all_events.extend(events), as all_events = events
ExtendReplacing(acc, events) == events

\* all_events.extend(events)
Extend(acc, events) == acc \o events

\* one pass of the while loop, resp being the response to the request, and the
\* return once page_url is empty
FetchPage(resp) ==
    /\ pc = "fetching"
    /\ Truthy(page_url)
    /\ pages' = Append(pages, [url |-> page_url,
                               params |-> (page_url = EventsUrl(config.account_id)),
                               resp |-> resp])
    /\ CASE resp.kind = "error" ->
              /\ Fail("HTTPError")
              /\ UNCHANGED <<page_url, all_events, raw_events>>
         [] resp.kind = "dict" /\ Get(resp.Events, PyList(<<>>)).k # "list" ->
              /\ Fail("TypeError")
              /\ UNCHANGED <<page_url, all_events, raw_events>>
         [] resp.kind = "dict" /\ Get(resp.Events, PyList(<<>>)).k = "list" ->
              /\ all_events' = Extend(all_events, Get(resp.Events, PyList(<<>>)).v)
              /\ page_url' = Get(resp.ResultNextPageUrl, None)
              /\ IF Truthy(page_url')
                 THEN UNCHANGED <<pc, raw_events>>
                 ELSE pc' = "returned" /\ raw_events' = PyList(all_events')
              /\ UNCHANGED result
         [] resp.kind = "list" ->
              /\ all_events' = Extend(all_events, resp.data)
              /\ page_url' = None
              /\ pc' = "returned" /\ raw_events' = PyList(all_events')
              /\ UNCHANGED result
    /\ UNCHANGED <<transformVars, clientVars, config, transformed_events, idx, saved>>

----------------------------------------------------------------------------
(* sync_events *)

CANCELLED == <<"C", "A", "N", "C", "E", "L", "L", "E", "D">>

\* IsCancelled looking for the upper-case word in the name as written
IsCancelledAsWritten(name) == contains(name, CANCELLED)

\* 'CANCELLED' in name.upper()
IsCancelled(name) == contains(upper(name), CANCELLED)

\* SyncBegin writing an empty document before it fetches anything
SyncBeginSavingFirst ==
    /\ pc = "start"
    /\ IF ~Truthy(config.account_id) \/ ~Truthy(config.api_key)
       THEN Fail("ValueError") /\ UNCHANGED saved
       ELSE /\ pc' = "get_events"
            /\ saved' = Append(saved, [eventCount |-> 0, events |-> <<>>])
            /\ UNCHANGED result
    /\ UNCHANGED <<transformVars, clientVars, fetchVars, config, raw_events,
                   transformed_events, idx>>

\* lines 299-318: the credentials are validated, the storage backend is made,
\* the organization config is loaded and the client is constructed
SyncBegin ==
    /\ pc = "start"
    /\ IF ~Truthy(config.account_id) \/ ~Truthy(config.api_key)
       THEN Fail("ValueError")
       ELSE pc' = "get_events" /\ UNCHANGED result
    /\ UNCHANGED <<transformVars, clientVars, fetchVars, config, raw_events,
                   transformed_events, idx, saved>>

\* one pass of the for loop over raw_events
ProcessEvent ==
    /\ pc = "returned"
    /\ idx < Len(raw_events.v)
    /\ LET ev == raw_events.v[idx + 1]
           name == Get(ev.Name, PyStr(<<>>))
           transformed == transform_event(ev, org_config)
       IN IF ~ev.isdict \/ name.k # "str"
          THEN /\ Fail("AttributeError")
               /\ UNCHANGED <<idx, transformed_events>>
          ELSE /\ idx' = idx + 1
               /\ transformed_events' =
                     IF IsCancelled(name.v) \/ transformed.raised
                     THEN transformed_events
                     ELSE Append(transformed_events, transformed.val)
               /\ UNCHANGED <<pc, result>>
    /\ UNCHANGED <<transformVars, clientVars, fetchVars, config, raw_events, saved>>

\* lines 336-359: the document is built and handed to storage.save_events
SaveEvents ==
    /\ pc = "returned"
    /\ idx = Len(raw_events.v)
    /\ saved' = Append(saved, [eventCount |-> Len(transformed_events),
                               events |-> transformed_events])
    /\ result' = [raised |-> FALSE, success |-> TRUE,
                  eventCount |-> Len(transformed_events)]
    /\ pc' = "done"
    /\ UNCHANGED <<transformVars, clientVars, fetchVars, config, raw_events,
                   transformed_events, idx>>

----------------------------------------------------------------------------
(* Raw events and organization configs *)

\* a key-value record with every key absent
BaseEvent ==
    [isdict |-> TRUE, Id |-> Unset, Name |-> Unset, StartDate |-> Unset,
     EndDate |-> Unset, Location |-> Unset, Details |-> Unset, Url |-> Unset,
     RegistrationUrl |-> Unset, Tags |-> Unset, RegistrationsLimit |-> Unset,
     ConfirmedRegistrationsCount |-> Unset, RegistrationEnabled |-> Unset,
     AccessLevel |-> Unset]

\* a record of the event list that is no key-value record (a JSON string, say)
NotADict == [BaseEvent EXCEPT !.isdict = FALSE]

EmptyConfig ==
    [auto_tag_rules |-> Unset, autoTagRules |-> Unset,
     derived_fields |-> Unset, derivedFields |-> Unset]

Rule(type, pattern, tag) == [type |-> type, pattern |-> pattern, tag |-> tag]

\* {'before': h}
Before(h) == [EmptyBoundary EXCEPT !.before = PyInt(h)]
\* {'morning': {'before': m}, 'afternoon': {'before': a}}
TimeOfDay(m, a) == [EmptyTimeOfDay EXCEPT !.morning = Before(m), !.afternoon = Before(a)]

\* LocalFileStorage._default_config and GoogleCloudStorage._default_config
LocalDefaultConfig ==
    [EmptyConfig EXCEPT
        !.auto_tag_rules = PyList(<<>>),
        !.derived_fields = [EmptyDerived EXCEPT !.time_of_day = TimeOfDay(12, 17)]]
CloudDefaultConfig ==
    [EmptyConfig EXCEPT
        !.autoTagRules = PyList(<<>>),
        !.derivedFields = [EmptyDerived EXCEPT !.timeOfDay = TimeOfDay(12, 17)]]

\* all sequences over S of length at most n
RECURSIVE SeqsUpTo(_, _)
SeqsUpTo(S, n) ==
    IF n = 0 THEN {<<>>}
    ELSE LET shorter == SeqsUpTo(S, n - 1)
         IN shorter \cup {Append(s, x) : s \in shorter, x \in S}

\* nothing is running: no client, no fetch, no sync
Idle ==
    /\ token = None /\ token_expires = None /\ now = 0 /\ token_log = NoTokenLog
    /\ page_url = None /\ all_events = <<>> /\ pages = <<>>
    /\ pc = "idle" /\ config = NoCredentials /\ raw_events = None
    /\ transformed_events = <<>> /\ idx = 0 /\ saved = <<>> /\ result = None

----------------------------------------------------------------------------
(* Calls of apply_auto_tags *)

MaxNameLen == 2
MaxRules == 2

TagNames == SeqsUpTo({"a", "B"}, MaxNameLen)

RuleTypes == {PyStr("name-prefix"), PyStr("name-contains"), PyStr("name-suffix")}

RulePool ==
    {Rule(t, PyStr(pat), PyStr(tag)) :
        t \in RuleTypes, pat \in {<<"A">>, <<"a", "B">>}, tag \in {<<"T1">>, <<"T2">>}}
    \cup {Rule(PyStr("name-contains"), PyStr(<<>>), PyStr(<<"T1">>)),
          Rule(PyStr("name-prefix"), PyStr(<<"A">>), PyStr(<<>>)),
          Rule(PyStr("name-contains"), PyStr(<<"A">>), Unset),
          Rule(PyStr("name-contains"), Unset, PyStr(<<"T1">>)),
          Rule(PyStr("name-regex"), PyStr(<<"A">>), PyStr(<<"T1">>)),
          Rule(Unset, PyStr(<<"A">>), PyStr(<<"T1">>))}

RuleLists == SeqsUpTo(RulePool, MaxRules)

InitTags ==
    /\ event \in {[BaseEvent EXCEPT !.Name = PyStr(n)] : n \in TagNames}
    /\ org_config = EmptyConfig
    /\ ret = NoCall
    /\ Idle

CallApplyAutoTags ==
    /\ ret = NoCall
    /\ \E rules \in RuleLists :
          ret' = [fn |-> "apply_auto_tags", rules |-> rules,
                  out |-> apply_auto_tags(event, PyList(rules))]
    /\ UNCHANGED <<event, org_config, clientVars, fetchVars, pc, syncVars>>

NextTags == CallApplyAutoTags

SpecTags == InitTags /\ [][NextTags]_vars

----------------------------------------------------------------------------
(* Calls of get_events on a new client *)

MaxFetches == 3

Numbered(n) == [BaseEvent EXCEPT !.Id = PyInt(n)]

PageEvents == {<<>>, <<Numbered(1)>>, <<Numbered(2), Numbered(1)>>, <<Numbered(1), Numbered(1)>>}

NextUrls ==
    {Unset, None, PyStr(<<>>), EventsUrl(GoodCredentials.account_id),
     PyStr(<<"https://api.wildapricot.org/v2.2", "/next">>)}

FetchResponses ==
    {HttpError}
    \cup {DictPage(e, n) : e \in {Unset, None} \cup {PyList(l) : l \in PageEvents},
                           n \in NextUrls}
    \cup {ListPage(l) : l \in PageEvents}

ClientTokenResponses == {TokenRefused, TokenOk(<<"tokA">>, 1800)}

\* the caller calls get_events on a new client
BeginFetch == \E resp \in ClientTokenResponses : GetEventsBegin(resp, 1)

\* the events endpoint answers the pending request
FetchAnyPage ==
    /\ Len(pages) < MaxFetches
    /\ \E resp \in FetchResponses : FetchPage(resp)

InitFetch ==
    /\ event = BaseEvent /\ org_config = EmptyConfig /\ ret = NoCall
    /\ token = None /\ token_expires = None /\ now = 0 /\ token_log = NoTokenLog
    /\ page_url = None /\ all_events = <<>> /\ pages = <<>>
    /\ pc = "get_events" /\ config = GoodCredentials /\ raw_events = None
    /\ transformed_events = <<>> /\ idx = 0 /\ saved = <<>> /\ result = None

NextFetch == BeginFetch \/ FetchAnyPage

SpecFetch == InitFetch /\ [][NextFetch]_vars

----------------------------------------------------------------------------
(* Calls of _get_token on one client, at increasing clock times *)

InitToken ==
    /\ event = BaseEvent /\ org_config = EmptyConfig /\ ret = NoCall
    /\ Idle

NextToken == Tick \/ CallGetToken

SpecToken == InitToken /\ [][NextToken]_vars

----------------------------------------------------------------------------
(* Calls of transform_event *)

MaxLimit == 7
MaxConfirmed == 3

Named == [BaseEvent EXCEPT !.Name = PyStr(<<"a", "B">>)]

FullTag == <<"availability:", "full">>

\* a rule that tags every event named a... as full
FullRule == Rule(PyStr("name-prefix"), PyStr(<<"A">>), PyStr(FullTag))

TagValues ==
    {Unset, None, PyList(<<>>), PyList(<<FullTag>>), PyList(<< <<"x">>, <<"x">> >>),
     PyStr(<<"x", " ", ",", ",", " ", "availability:", "full">>), PyInt(3)}

LimitValues == {Unset, None, PyStr(<<"10">>)} \cup {PyInt(n) : n \in (0 - 1)..MaxLimit}
ConfirmedValues == {Unset, None} \cup {PyInt(n) : n \in (0 - 1)..MaxConfirmed}

\* events that differ in their tags and capacity, under configs with and
\* without a rule that emits an availability tag
CapacityInputs ==
    {<<[Named EXCEPT !.Tags = t, !.RegistrationsLimit = l,
                     !.ConfirmedRegistrationsCount = c], cfg>> :
        t \in TagValues, l \in LimitValues, c \in ConfirmedValues,
        cfg \in {LocalDefaultConfig,
                 [EmptyConfig EXCEPT !.autoTagRules = PyList(<<FullRule>>)]}}

IdValues == {Unset, None, PyInt(0), PyInt(7), PyStr(<<>>), PyStr(<<"e1">>)}
UrlValues == {Unset, None, PyStr(<<>>), PyStr(<<"https://example.org/e">>)}

StartValues ==
    {Unset, None, PyStr(<<"soon">>), PyStr(<<"2026-11-08">>)}
    \cup {PyStr(<<d, "T", h, ":00:00">> \o z) :
            d \in {"2026-11-03", "2026-11-07"}, h \in IsoHours, z \in {<<>>, <<"Z">>}}

\* events that differ in their identifier, URL and description
UrlInputs ==
    {<<[Named EXCEPT !.Id = i, !.Url = u, !.Details = d], CloudDefaultConfig>> :
        i \in IdValues, u \in UrlValues,
        d \in {Unset, None, [k |-> "dict", DescriptionHtml |-> Unset],
               [k |-> "dict", DescriptionHtml |-> PyStr(<<"<p>">>)]}}

RuleA == Rule(PyStr("name-prefix"), PyStr(<<"A">>), PyStr(<<"T1">>))
RuleB == Rule(PyStr("name-suffix"), PyStr(<<"b">>), PyStr(<<"T2">>))

\* a value of derived_fields or derivedFields
DerivedValues ==
    {Unset, None, EmptyDerived,
     [EmptyDerived EXCEPT !.time_of_day = EmptyTimeOfDay],
     [EmptyDerived EXCEPT !.time_of_day = TimeOfDay(10, 15)],
     [EmptyDerived EXCEPT !.timeOfDay = TimeOfDay(10, 15)],
     [EmptyDerived EXCEPT !.time_of_day = EmptyTimeOfDay, !.timeOfDay = TimeOfDay(10, 15)],
     [EmptyDerived EXCEPT !.timeOfDay = [EmptyTimeOfDay EXCEPT !.morning = Before(21)]]}

\* events that differ in their start, under configs that spell their keys in
\* either convention, or both
ConfigInputs ==
    {<<[Named EXCEPT !.StartDate = s],
       [auto_tag_rules |-> sr, autoTagRules |-> cr,
        derived_fields |-> sd, derivedFields |-> cd]>> :
        s \in StartValues,
        sr \in {Unset, PyList(<<>>), PyList(<<RuleA>>)},
        cr \in {Unset, PyList(<<>>), PyList(<<RuleB>>)},
        sd \in DerivedValues, cd \in DerivedValues}

TransformInputs ==
    CapacityInputs \cup UrlInputs \cup ConfigInputs
    \cup {<<NotADict, LocalDefaultConfig>>,
          <<[BaseEvent EXCEPT !.Name = None], LocalDefaultConfig>>,
          <<BaseEvent, CloudDefaultConfig>>}

InitTransform ==
    /\ \E input \in TransformInputs : event = input[1] /\ org_config = input[2]
    /\ ret = NoCall
    /\ Idle

\* a call of transform_event: its outcome, and the values of the locals that
\* hold the resolved config entries
CallTransformEvent ==
    /\ ret = NoCall
    /\ ret' = [fn |-> "transform_event",
               out |-> transform_event(event, org_config),
               auto_tag_rules |-> ResolveAutoTagRules(org_config),
               derived |-> ResolveDerivedFields(org_config),
               time_config |-> ResolveTimeOfDay(ResolveDerivedFields(org_config))]
    /\ UNCHANGED <<event, org_config, clientVars, fetchVars, pc, syncVars>>

NextTransform == CallTransformEvent

SpecTransform == InitTransform /\ [][NextTransform]_vars

----------------------------------------------------------------------------
(* Runs of sync_events *)

Yoga == <<"Y", "o", "g", "a">>

NamedEvent(name) == [BaseEvent EXCEPT !.Name = PyStr(name), !.Id = PyInt(7)]

\* events that transform
ValidEvents ==
    {NamedEvent(Yoga),
     NamedEvent(<<"C", "a", "n", "c", "e", "l", "e", "d", " ">> \o Yoga)}

\* events announced as cancelled, in three spellings
CancelledEvents ==
    {NamedEvent(CANCELLED \o <<":", " ">> \o Yoga),
     NamedEvent(Yoga \o <<" ", "c", "a", "n", "c", "e", "l", "l", "e", "d">>),
     NamedEvent(<<"(", "c", "A", "n", "C", "e", "L", "l", "E", "d", ")">>)}

\* records the per-event processing raises on
MalformedEvents ==
    {[BaseEvent EXCEPT !.Name = None],
     NotADict,
     [NamedEvent(Yoga) EXCEPT !.RegistrationsLimit = PyStr(<<"10">>)]}

SyncEvents == ValidEvents \cup CancelledEvents \cup MalformedEvents

\* pages of at most one event, the last one naming no next page
SyncResponses ==
    {HttpError}
    \cup {DictPage(PyList(l), n) :
            l \in {<<>>} \cup {<<e>> : e \in SyncEvents},
            n \in {Unset, PyStr(<<"https://api.wildapricot.org/v2.2", "/next">>)}}

CredentialValues ==
    {GoodCredentials, NoCredentials,
     Credentials(PyStr(<<>>), PyStr(<<"key">>)),
     Credentials(PyStr(<<"12345">>), None)}

StoredConfigs ==
    {LocalDefaultConfig, [CloudDefaultConfig EXCEPT !.autoTagRules = PyList(<<RuleA>>)]}

FetchSyncPage ==
    /\ Len(pages) < MaxFetches
    /\ \E resp \in SyncResponses : FetchPage(resp)

Init ==
    /\ event = BaseEvent /\ ret = NoCall
    /\ org_config \in StoredConfigs
    /\ token = None /\ token_expires = None /\ now = 0 /\ token_log = NoTokenLog
    /\ page_url = None /\ all_events = <<>> /\ pages = <<>>
    /\ pc = "start" /\ config \in CredentialValues /\ raw_events = None
    /\ transformed_events = <<>> /\ idx = 0 /\ saved = <<>> /\ result = None

Next == SyncBegin \/ BeginFetch \/ FetchSyncPage \/ ProcessEvent \/ SaveEvents

Spec == Init /\ [][Next]_vars

----------------------------------------------------------------------------
(* Claims about apply_auto_tags *)

\* c and d are the same letter up to case, or the same symbol
SameLetter(c, d) ==
    \/ c = d
    \/ \E i \in DOMAIN UpperLetters : {c, d} = {UpperLetters[i], LowerLetters[i]}

\* pat occurs in name at offset off, letter case ignored
MatchesAt(name, pat, off) ==
    /\ off >= 0
    /\ off + Len(pat) <= Len(name)
    /\ \A i \in 1..Len(pat) : SameLetter(name[off + i], pat[i])

RuleContributes(name, rule) ==
    /\ rule.pattern.k = "str" /\ rule.pattern.v # <<>>
    /\ rule.tag.k = "str" /\ rule.tag.v # <<>>
    /\ \/ rule.type = PyStr("name-prefix") /\ MatchesAt(name, rule.pattern.v, 0)
       \/ rule.type = PyStr("name-contains")
            /\ \E off \in 0..Len(name) : MatchesAt(name, rule.pattern.v, off)
       \/ rule.type = PyStr("name-suffix")
            /\ MatchesAt(name, rule.pattern.v, Len(name) - Len(rule.pattern.v))

RECURSIVE ExpectedTags(_, _)
ExpectedTags(name, rules) ==
    IF rules = <<>> THEN <<>>
    ELSE (IF RuleContributes(name, Head(rules)) THEN <<Head(rules).tag.v>> ELSE <<>>)
         \o ExpectedTags(name, Tail(rules))

\* C9: apply_auto_tags returns exactly the tags of the rules that match the
\* name, in rule-list order with duplicates kept, letter case ignored; a rule
\* with an empty pattern, an empty tag or an unrecognized type contributes none.
C9_AutoTagsAreMatchingRules ==
    ret.fn = "apply_auto_tags" =>
        /\ ~ret.out.raised
        /\ ret.out.val = ExpectedTags(event.Name.v, ret.rules)

\* two rules of different case than the name both match, a prefix and a suffix
C9_Witness ==
    /\ ret.fn = "apply_auto_tags"
    /\ event.Name.v = <<"a", "B">>
    /\ Len(ret.rules) = 2
    /\ ret.rules[1] = Rule(PyStr("name-prefix"), PyStr(<<"A">>), PyStr(<<"T2">>))
    /\ ret.rules[2].type = PyStr("name-suffix")
    /\ ret.out = Returned(<< <<"T2">>, <<"T1">> >>)

----------------------------------------------------------------------------
(* Claims about transform_event *)

Transformed == ret.fn = "transform_event" /\ ~ret.out.raised

FallbackPrefix == <<"https://sbnewcomers.org/event-">>

\* C4: every NormalizedEvent has a non-empty url: the source Url verbatim when
\* the raw event has one, otherwise a fallback URL built from the identifier,
\* also when the Url is absent or empty and the Id is absent, null or 0.
C4_UrlNonEmpty ==
    Transformed =>
        LET url == ret.out.val.url
        IN /\ url.k = "str" /\ url.v # <<>>
           /\ IF event.Url.k = "str" /\ event.Url.v # <<>>
              THEN url = event.Url
              ELSE startswith(url.v, FallbackPrefix)

\* a present, empty list or mapping
PresentEmpty(x) == x \in {PyList(<<>>), EmptyDerived, EmptyTimeOfDay}
\* a present, non-empty list or mapping
NonEmpty(x) ==
    \/ x.k = "list" /\ x.v # <<>>
    \/ x.k = "dict" /\ x \notin {EmptyDerived, EmptyTimeOfDay}

\* C7: of each snake_case/camelCase pair of config keys the first non-empty
\* value is used: with the snake_case key present but empty and the camelCase
\* key non-empty, the camelCase value is the one applied.
C7_FirstNonEmptyWins ==
    ret.fn = "transform_event" =>
        /\ (PresentEmpty(org_config.auto_tag_rules) /\ NonEmpty(org_config.autoTagRules))
              => ret.auto_tag_rules = org_config.autoTagRules
        /\ (PresentEmpty(org_config.derived_fields) /\ NonEmpty(org_config.derivedFields))
              => ret.derived = org_config.derivedFields
        /\ (ret.derived.k = "dict" /\ PresentEmpty(ret.derived.time_of_day)
              /\ NonEmpty(ret.derived.timeOfDay))
              => ret.time_config = Returned(ret.derived.timeOfDay)

LimitUnset == event.RegistrationsLimit \in {Unset, None}

\* C8: spotsAvailable is null iff the capacity limit is null or unset, and
\* isFull is true iff spotsAvailable is exactly 0.
C8_SpotsAndFull ==
    Transformed =>
        /\ (ret.out.val.spotsAvailable = None) <=> LimitUnset
        /\ ret.out.val.isFull <=> (ret.out.val.spotsAvailable = PyInt(0))

\* an event with a limit of 0 and one with more registrations than its limit
C8_Witness ==
    /\ Transformed
    /\ event.RegistrationsLimit = PyInt(0)
    /\ event.ConfirmedRegistrationsCount = PyInt(1)
    /\ ret.out.val.spotsAvailable = PyInt(0)
    /\ ret.out.val.isFull

IsAvailabilityTag(t) == t # <<>> /\ t[1] = "availability:"

IntegerCapacity ==
    /\ event.RegistrationsLimit.k = "int"
    /\ event.ConfirmedRegistrationsCount.k = "int"

NoSourceAvailabilityTag ==
    LET wa_tags == ParseTags(event)
    IN ~wa_tags.raised /\ \A i \in DOMAIN wa_tags.val : ~IsAvailabilityTag(wa_tags.val[i])

RuleTagsOf(x) ==
    IF x.k = "list" THEN {x.v[i].tag : i \in DOMAIN x.v} ELSE {}

NoRuleAvailabilityTag ==
    \A tag \in RuleTagsOf(org_config.auto_tag_rules) \cup RuleTagsOf(org_config.autoTagRules) :
        ~(tag.k = "str" /\ IsAvailabilityTag(tag.v))

\* C10 as claimed: for an event with integer limit and confirmed count and no
\* source availability tag, tags holds availability:full iff isFull, also for
\* a limit of 0.  (Stated for configs whose rules emit no availability tag, so
\* that the only availability tag is the derived one the claim is about.)
C10_FullTagIffIsFull ==
    (Transformed /\ IntegerCapacity /\ NoSourceAvailabilityTag /\ NoRuleAvailabilityTag) =>
        ((FullTag \in ret.out.val.tags) <=> ret.out.val.isFull)

\* C10 as amended: for an event with an integer limit other than 0 and an
\* integer confirmed count, no source tag and no rule tag starting with
\* "availability:", tags holds availability:full iff isFull.
C10_FullTagIffIsFullNonZeroLimit ==
    (Transformed /\ IntegerCapacity /\ event.RegistrationsLimit.v # 0
        /\ NoSourceAvailabilityTag /\ NoRuleAvailabilityTag) =>
        ((FullTag \in ret.out.val.tags) <=> ret.out.val.isFull)

\* an event with as many registrations as its limit, tagged full and flagged full
C10_Witness ==
    /\ Transformed /\ NoSourceAvailabilityTag /\ NoRuleAvailabilityTag
    /\ event.RegistrationsLimit = PyInt(3)
    /\ event.ConfirmedRegistrationsCount = PyInt(3)
    /\ FullTag \in ret.out.val.tags
    /\ ret.out.val.isFull

----------------------------------------------------------------------------
(* Claims about _get_token *)

\* C5: a _get_token call makes the token request iff no token is stored or the
\* time is at or after (time of last acquisition + expires_in - 60 seconds);
\* otherwise it returns the stored token unchanged, without a request.
C5_RefreshIffExpired ==
    [][token_log'.call # token_log.call =>
          /\ token_log'.call.net <=>
                \/ token = None
                \/ now >= token_log.acquired_at + token_log.expires_in - RefreshMargin
          /\ ~token_log'.call.net =>
                /\ ~token_log'.call.raised
                /\ token_log'.call.returned = token
                /\ token' = token /\ token_expires' = token_expires]_vars

\* a call one second before the refresh time returned the stored token
C5_Witness ==
    /\ token_log.call.fn = "_get_token"
    /\ ~token_log.call.net
    /\ token_log.call.returned = token /\ token # None
    /\ token_log.call.at = token_log.acquired_at + token_log.expires_in - RefreshMargin - 1
    /\ token_log.call.at > token_log.acquired_at

----------------------------------------------------------------------------
(* Claims about get_events *)

\* the response names a next page
CarriesNext(resp) ==
    /\ resp.kind = "dict"
    /\ resp.ResultNextPageUrl.k = "str" /\ resp.ResultNextPageUrl.v # <<>>

\* the event list a page carries
PageList(resp) ==
    CASE resp.kind = "list" -> resp.data
      [] resp.kind = "dict" /\ resp.Events.k = "list" -> resp.Events.v
      [] OTHER -> <<>>

RECURSIVE Concatenation(_)
Concatenation(log) ==
    IF log = <<>> THEN <<>> ELSE PageList(Head(log).resp) \o Concatenation(Tail(log))

\* C6: get_events follows the next-page URLs until a response carries none, and
\* only then returns; what it returns is the concatenation, in page order, of
\* the event lists of the pages fetched.
C6_AllPagesInOrder ==
    pc = "returned" =>
        /\ pages # <<>>
        /\ ~CarriesNext(pages[Len(pages)].resp)
        /\ \A i \in 1..(Len(pages) - 1) :
              /\ CarriesNext(pages[i].resp)
              /\ pages[i + 1].url = pages[i].resp.ResultNextPageUrl
        /\ raw_events = PyList(Concatenation(pages))

\* three pages, the last a bare list, each contributing events
C6_Witness ==
    /\ pc = "returned"
    /\ Len(pages) = 3
    /\ pages[3].resp.kind = "list"
    /\ \A i \in 1..3 : PageList(pages[i].resp) # <<>>
    /\ Len(raw_events.v) = 5

----------------------------------------------------------------------------
(* Claims about sync_events *)

\* the per-event processing of sync_events raises on the record
Malformed(ev) ==
    \/ ~ev.isdict
    \/ Get(ev.Name, PyStr(<<>>)).k # "str"
    \/ transform_event(ev, org_config).raised

\* the name holds the word cancelled, in any letter case
NamesCancellation(name) ==
    \E off \in 0..Len(name) : MatchesAt(name, CANCELLED, off)

AnnouncedCancelled(ev) ==
    ev.isdict /\ ev.Name.k = "str" /\ NamesCancellation(ev.Name.v)

\* how many elements of the sequence s satisfy P
Count(s, P(_)) == Cardinality({i \in DOMAIN s : P(s[i])})

\* get_events has returned and the run has ended, one way or the other
RunEndedAfterFetch == pc \in {"done", "failed"} /\ raw_events # None

\* C1: with N events that transform and one malformed event fetched,
\* sync_events does not abort: it returns success and the written document
\* holds exactly the N valid events, with eventCount = N.
C1_OneMalformedEventIsSkipped ==
    (/\ RunEndedAfterFetch
     /\ Len(raw_events.v) >= 2
     /\ Count(raw_events.v, Malformed) = 1
     /\ Count(raw_events.v, AnnouncedCancelled) = 0) =>
        /\ pc = "done"
        /\ result.success
        /\ Len(saved) = 1
        /\ saved[1].eventCount = Len(raw_events.v) - 1
        /\ Len(saved[1].events) = Len(raw_events.v) - 1

FatalErrors == {"ValueError", "HTTPError"}

\* C2: in a run that ends in a fatal error (missing account id or API key, a
\* refused token exchange, a refused page of the event fetch),
\* storage.save_events is never invoked: no document is written.
C2_NoSaveOnFatalError ==
    (pc = "failed" /\ result.error \in FatalErrors) => saved = <<>>

\* the second page was refused after the first had delivered an event
C2_Witness ==
    /\ pc = "failed" /\ result.error = "HTTPError"
    /\ Len(pages) = 2 /\ pages[2].resp = HttpError
    /\ all_events # <<>>
    /\ saved = <<>>

\* C3: no event whose Name holds "cancelled" in any letter case is in the
\* events of a written document, and eventCount is the number of events in it.
C3_CancelledEventsExcluded ==
    \A i \in DOMAIN saved :
        /\ \A j \in DOMAIN saved[i].events :
              ~(saved[i].events[j].name.k = "str"
                /\ NamesCancellation(saved[i].events[j].name.v))
        /\ saved[i].eventCount = Len(saved[i].events)

\* a run that fetched a valid event and two cancelled ones, in lower and in
\* mixed case, wrote a document of one event
C3_Witness ==
    /\ pc = "done"
    /\ Len(raw_events.v) = 3
    /\ Count(raw_events.v, AnnouncedCancelled) = 2
    /\ \E i \in 1..3 : raw_events.v[i].Name.v = <<"(", "c", "A", "n", "C", "e", "L", "l", "E", "d", ")">>
    /\ \E i \in 1..3 : raw_events.v[i].Name.v = Yoga \o <<" ", "c", "a", "n", "c", "e", "l", "l", "e", "d">>
    /\ saved[1].eventCount = 1
    /\ saved[1].events[1].name = PyStr(Yoga)

====
